---- MODULE Spec2Model ----
(***************************************************************************)
(* hex_fmt: shortened hexadecimal rendering of byte slices (HexFmt) and of *)
(* lists of byte slices (HexList).                                         *)
(*                                                                         *)
(* One render call is modelled step by step.  A text is a sequence of      *)
(* one-character strings; the output sink is such a text, and every        *)
(* write_str/write_char that reaches the sink is one "write".  The sink    *)
(* rejects its k-th write when failAt = Some(k), and none when it is None. *)
(*                                                                         *)
(* The formatting machinery the crate calls into is modelled by what it    *)
(* does: `{:02x}` / `{:1x}` on a u8 (Formatter::pad_integral), `{:.*}` on  *)
(* a str (Formatter::pad), Formatter::debug_list (DebugList / DebugInner / *)
(* PadAdapter for the alternate flag `#`).                                 *)
(***************************************************************************)
EXTENDS Integers, Sequences, FiniteSets

\* ------------------------------------------------------------------ bounds
MaxLen == 6
MaxPrec == 12
MaxFail == 8
MaxList == 2
MaxElemLen == 3

\* --------------------------------------------------------- program constants
DEFAULT_PRECISION == 10
ELLIPSIS == <<".", ".">>

\* Option<usize>: f.precision() is None or Some(p); the sink rejects no
\* write (None) or its k-th (Some(k)).
None == <<>>
Some(x) == <<x>>

\* ------------------------------------------------------------------- texts
LowerDigits ==
    <<"0","1","2","3","4","5","6","7","8","9","a","b","c","d","e","f">>
UpperDigits ==
    <<"0","1","2","3","4","5","6","7","8","9","A","B","C","D","E","F">>

Take(s, n) == SubSeq(s, 1, n)
LastN(s, n) == SubSeq(s, Len(s) - n + 1, Len(s))

\* One hex digit of a value 0..15, as `{:x}` / `{:X}` print it.
HexDigit(d, c) ==
    IF c = "Upper" THEN UpperDigits[d + 1] ELSE LowerDigits[d + 1]

\* Mutant of fmt_byte: `{:X}`, no zero padding.
fmt_byte_unpadded(byte, c) ==
    IF byte < 16
    THEN << <<HexDigit(byte, c)>> >>
    ELSE << <<HexDigit(byte \div 16, c), HexDigit(byte % 16, c)>> >>

\* The sink writes of fmt_byte: `{:02X}` / `{:02x}` of a u8.  A value below
\* 0x10 has one digit, so pad_integral writes the fill '0' (write_char) and
\* then the digit (write_str); otherwise the two digits are one write_str.
fmt_byte(byte, c) ==
    IF byte < 16
    THEN << <<"0">>, <<HexDigit(byte, c)>> >>
    ELSE << <<HexDigit(byte \div 16, c), HexDigit(byte % 16, c)>> >>

\* Mutant of fmt_digit: both arms of the match print `{:1x}`.
fmt_digit_lower(digit, c) ==
    IF digit < 16
    THEN << <<HexDigit(digit, "Lower")>> >>
    ELSE << <<HexDigit(digit \div 16, "Lower"), HexDigit(digit % 16, "Lower")>> >>

\* The sink writes of fmt_digit: `{:1X}` / `{:1x}` of a u8.
fmt_digit(digit, c) ==
    IF digit < 16
    THEN << <<HexDigit(digit, c)>> >>
    ELSE << <<HexDigit(digit \div 16, c), HexDigit(digit % 16, c)>> >>

\* ------------------------------------------------------------------ inputs
\* Byte values the inputs are cut from: all distinct, with digits and letters
\* in both nibbles, two of them below 0x10.
Pattern == <<9, 10, 75, 192, 222, 243, 65>>
PatternByte(k) == Pattern[(k % Len(Pattern)) + 1]
Slice(start, n) == [j \in 1..n |-> PatternByte(start + j - 1)]

ByteSeqs == {Slice(s, n) : s \in 0..(Len(Pattern) - 1), n \in 0..MaxLen}

ListOf(lens) == [j \in 1..Len(lens) |-> Slice(3 * (j - 1), lens[j])]
Lists ==
    {ListOf(lens) : lens \in UNION {[1..k -> 0..MaxElemLen] : k \in 0..MaxList}}

Precisions == {None} \cup {Some(p) : p \in 0..MaxPrec}
FailPoints == {None} \cup {Some(k) : k \in 1..MaxFail}
Cases == {"Lower", "Upper"}
Entries == {"Debug", "Display", "LowerHex", "UpperHex"}

\* ------------------------------------------------------------------- state
VARIABLES
    view,        \* "HexFmt" or "HexList": the wrapper being rendered
    value,       \* HexFmt.0: the byte slice
    list,        \* HexList.0: the collection
    precision,   \* f.precision(): None or Some(p)
    alternate,   \* f.alternate(), the `#` flag
    failAt,      \* the write the sink rejects: None or Some(k)
    case,        \* Case of the running call
    pc,          \* position in the code
    sink,        \* the text written so far
    attempts,    \* writes attempted on the sink so far
    result,      \* "none", "Ok", "Err", "Panic"
    bytes,       \* fmt: the `bytes` argument
    prec,        \* fmt: the local `precision`
    left,        \* fmt: the local `left`
    right,       \* fmt: the local `right`
    i,           \* fmt: bytes already visited by the running `for`
    ret,         \* fmt: its return value, read by the list renderers
    idx,         \* HexList: items taken from the iterator
    has_fields,  \* DebugInner.has_fields
    dl_result,   \* DebugInner.result
    on_newline,  \* PadAdapterState.on_newline
    out          \* per case, the finished call's <<result, sink>>

vars ==
    <<view, value, list, precision, alternate, failAt, case, pc, sink,
      attempts, result, bytes, prec, left, right, i, ret, idx, has_fields,
      dl_result, on_newline, out>>

input == <<view, value, list, precision, alternate, failAt>>
fmt_locals == <<bytes, prec, left, right, i>>
list_locals == <<idx, has_fields, dl_result, on_newline>>

NoOut == <<"none", <<>>>>

Init ==
    /\ \/ view = "HexFmt" /\ value \in ByteSeqs /\ list = <<>>
       \/ view = "HexList" /\ value = <<>> /\ list \in Lists
    /\ precision \in Precisions
    /\ alternate \in BOOLEAN
    /\ failAt \in FailPoints
    /\ case = "Lower"
    /\ pc = "idle"
    /\ sink = <<>>
    /\ attempts = 0
    /\ result = "none"
    /\ bytes = <<>>
    /\ prec = 0
    /\ left = 0
    /\ right = 0
    /\ i = 0
    /\ ret = "none"
    /\ idx = 0
    /\ has_fields = FALSE
    /\ dl_result = "Ok"
    /\ on_newline = FALSE
    /\ out = [c \in Cases |-> NoOut]

\* -------------------------------------------------------------- sink writes
\* The formatter fmt writes through is a PadAdapter exactly inside an entry
\* of a pretty-printed debug_list.
Padded == view = "HexList" /\ case = "Lower" /\ alternate

Indent == <<" ", " ", " ", " ">>

\* PadAdapter::write_str / write_char: nothing for an empty string; the
\* indentation first when at the start of a line.  Gives the writes that
\* reach the sink and the adapter's state after them.
RECURSIVE Adapt(_, _)
Adapt(chunks, nl) ==
    IF chunks = <<>>
    THEN [writes |-> <<>>, nl |-> nl]
    ELSE LET c == Head(chunks) IN
         IF c = <<>>
         THEN Adapt(Tail(chunks), nl)
         ELSE LET rest == Adapt(Tail(chunks), c[Len(c)] = "\n") IN
              [writes |-> (IF nl THEN <<Indent, c>> ELSE <<c>>) \o rest.writes,
               nl |-> rest.nl]

\* The sink takes the writes in order; the one failAt names is rejected,
\* and the `?` after it abandons those that follow.
RECURSIVE Emit(_, _, _)
Emit(s, a, writes) ==
    IF writes = <<>>
    THEN [sink |-> s, attempts |-> a, ok |-> TRUE]
    ELSE IF failAt # None /\ a + 1 = failAt[1]
         THEN [sink |-> s, attempts |-> a + 1, ok |-> FALSE]
         ELSE Emit(s \o Head(writes), a + 1, Tail(writes))

\* Writes made through the formatter `f` that fmt was given.
Write(chunks) ==
    IF Padded
    THEN LET ad == Adapt(chunks, on_newline) IN
         [e |-> Emit(sink, attempts, ad.writes), nl |-> ad.nl]
    ELSE [e |-> Emit(sink, attempts, chunks), nl |-> on_newline]

\* Writes made on the underlying formatter (brackets, separators).
WriteRaw(chunks) == [e |-> Emit(sink, attempts, chunks), nl |-> on_newline]

\* ------------------------------------------------------------ fmt (102-145)
\* Rust indexes from 0.
InRange(bs, k) == 0 <= k /\ k < Len(bs)
At(bs, k) == bs[k + 1]

\* Mutant of Resolve: the caller's precision is dropped.
ResolveDefaultOnly(precOpt) == DEFAULT_PRECISION

\* f.precision().unwrap_or(DEFAULT_PRECISION)
Resolve(precOpt) ==
    IF precOpt = None THEN DEFAULT_PRECISION ELSE precOpt[1]

\* Mutant of NoShortening: `<` for `<=`.
NoShorteningStrict(n, p) == 2 * n < p

\* "If the array is short enough, don't shorten it."
NoShortening(n, p) == 2 * n <= p

\* "the ellipsis fills the maximum width"
EllipsisOnly(p) == p <= Len(ELLIPSIS)

\* Mutant of EllipsisPrefix: the ellipsis is written whole.
EllipsisWhole(p) == << ELLIPSIS >>

\* `{:.*}` of ELLIPSIS with precision p: at most p characters of it, one write
\* (of the empty string when p = 0).
EllipsisPrefix(p) == << Take(ELLIPSIS, IF p < Len(ELLIPSIS) THEN p ELSE Len(ELLIPSIS)) >>

\* Mutant of NumHexDigits: the ellipsis is not counted.
NumHexDigitsNoEllipsis(p) == p

\* precision.saturating_sub(ELLIPSIS.len())
NumHexDigits(p) == IF p >= Len(ELLIPSIS) THEN p - Len(ELLIPSIS) ELSE 0
RightDigits(num) == num \div 2
LeftDigits(num) == num - RightDigits(num)

\* bytes[left / 2] >> 4
LeftNibbleIndex(l) == l \div 2
\* Mutant of HighNibble: the mask for the shift.
HighNibbleMasked(byte) == byte % 16
HighNibble(byte) == byte \div 16
\* bytes[bytes.len() - right / 2 - 1] & 0x0f
\* Mutant of RightNibbleIndex: off by one.
RightNibbleIndexOffByOne(n, r) == n - r \div 2
RightNibbleIndex(n, r) == n - r \div 2 - 1
LowNibble(byte) == byte % 16
\* &bytes[(bytes.len() - right / 2)..]
RightSliceStart(n, r) == n - r \div 2

\* fmt returns r: to the caller of the wrapper (HexFmt), or into the list
\* renderer that called it.  A panic unwinds out of the whole call.
Returns(r) ==
    /\ ret' = r
    /\ IF r = "Panic" \/ view = "HexFmt"
       THEN pc' = "ret" /\ result' = r
       ELSE /\ pc' = (IF case = "Upper" THEN "upper_ret" ELSE "entry_ret")
            /\ result' = result

\* `write(...)?` inside fmt: on success go on at np with loop position ni.
FmtWrite(chunks, np, ni) ==
    LET w == Write(chunks) IN
    /\ sink' = w.e.sink
    /\ attempts' = w.e.attempts
    /\ on_newline' = w.nl
    /\ IF w.e.ok
       THEN pc' = np /\ i' = ni /\ ret' = ret /\ result' = result
       ELSE Returns("Err") /\ i' = i

FmtPanic ==
    /\ Returns("Panic")
    /\ UNCHANGED <<sink, attempts, on_newline, i>>

\* 104-125: resolve the precision, choose the branch, split the digits and
\* take the left slice.
Fmt ==
    /\ pc = "fmt"
    /\ LET p == Resolve(precision)
           num == NumHexDigits(p)
       IN /\ prec' = p
          /\ IF NoShortening(Len(bytes), p)
             THEN /\ pc' = "full"
                  /\ UNCHANGED <<left, right, ret, result>>
             ELSE IF EllipsisOnly(p)
             THEN /\ pc' = "ellipsis_only"
                  /\ UNCHANGED <<left, right, ret, result>>
             ELSE /\ right' = RightDigits(num)
                  /\ left' = LeftDigits(num)
                  /\ IF left' \div 2 > Len(bytes)
                     THEN Returns("Panic")
                     ELSE pc' = "left" /\ UNCHANGED <<ret, result>>
    /\ i' = 0
    /\ UNCHANGED <<input, case, sink, attempts, bytes, list_locals, out>>

\* 108-110
FmtFullByte ==
    /\ pc = "full"
    /\ i < Len(bytes)
    /\ FmtWrite(fmt_byte(At(bytes, i), case), "full", i + 1)
    /\ UNCHANGED <<input, case, bytes, prec, left, right,
                   idx, has_fields, dl_result, out>>

\* 111
FmtFullDone ==
    /\ pc = "full"
    /\ i = Len(bytes)
    /\ Returns("Ok")
    /\ UNCHANGED <<input, case, sink, attempts, fmt_locals, list_locals, out>>

\* 115-117
FmtEllipsisOnly ==
    /\ pc = "ellipsis_only"
    /\ LET w == Write(EllipsisPrefix(prec)) IN
       /\ sink' = w.e.sink
       /\ attempts' = w.e.attempts
       /\ on_newline' = w.nl
       /\ Returns(IF w.e.ok THEN "Ok" ELSE "Err")
    /\ UNCHANGED <<input, case, fmt_locals, idx, has_fields, dl_result, out>>

\* 125-127
FmtLeftByte ==
    /\ pc = "left"
    /\ i < left \div 2
    /\ FmtWrite(fmt_byte(At(bytes, i), case), "left", i + 1)
    /\ UNCHANGED <<input, case, bytes, prec, left, right,
                   idx, has_fields, dl_result, out>>

\* 129-131
FmtLeftNibble ==
    /\ pc = "left"
    /\ i = left \div 2
    /\ IF left % 2 = 1
       THEN IF InRange(bytes, LeftNibbleIndex(left))
            THEN FmtWrite(
                     fmt_digit(HighNibble(At(bytes, LeftNibbleIndex(left))), case),
                     "ellipsis", 0)
            ELSE FmtPanic
       ELSE /\ pc' = "ellipsis"
            /\ i' = 0
            /\ UNCHANGED <<sink, attempts, on_newline, ret, result>>
    /\ UNCHANGED <<input, case, bytes, prec, left, right,
                   idx, has_fields, dl_result, out>>

\* Mutant of FmtEllipsis: the write's result is dropped (no `?`).
FmtEllipsisUnchecked ==
    /\ pc = "ellipsis"
    /\ LET w == Write(<<ELLIPSIS>>) IN
       /\ sink' = w.e.sink
       /\ attempts' = w.e.attempts
       /\ on_newline' = w.nl
    /\ pc' = "right_nibble"
    /\ UNCHANGED <<input, case, fmt_locals, ret, result,
                   idx, has_fields, dl_result, out>>

\* 134
FmtEllipsis ==
    /\ pc = "ellipsis"
    /\ FmtWrite(<<ELLIPSIS>>, "right_nibble", 0)
    /\ UNCHANGED <<input, case, bytes, prec, left, right,
                   idx, has_fields, dl_result, out>>

\* 137-139
FmtRightNibble ==
    /\ pc = "right_nibble"
    /\ IF right % 2 = 1
       THEN IF InRange(bytes, RightNibbleIndex(Len(bytes), right))
            THEN FmtWrite(
                     fmt_digit(
                         LowNibble(At(bytes, RightNibbleIndex(Len(bytes), right))),
                         case),
                     "right_slice", 0)
            ELSE FmtPanic
       ELSE /\ pc' = "right_slice"
            /\ UNCHANGED <<sink, attempts, on_newline, i, ret, result>>
    /\ UNCHANGED <<input, case, bytes, prec, left, right,
                   idx, has_fields, dl_result, out>>

\* 141: the slice expression
FmtRightSlice ==
    /\ pc = "right_slice"
    /\ IF InRange(bytes, RightSliceStart(Len(bytes), right))
          \/ RightSliceStart(Len(bytes), right) = Len(bytes)
       THEN /\ pc' = "right"
            /\ i' = RightSliceStart(Len(bytes), right)
            /\ UNCHANGED <<sink, attempts, on_newline, ret, result>>
       ELSE FmtPanic
    /\ UNCHANGED <<input, case, bytes, prec, left, right,
                   idx, has_fields, dl_result, out>>

\* 141-143
FmtRightByte ==
    /\ pc = "right"
    /\ i < Len(bytes)
    /\ FmtWrite(fmt_byte(At(bytes, i), case), "right", i + 1)
    /\ UNCHANGED <<input, case, bytes, prec, left, right,
                   idx, has_fields, dl_result, out>>

\* 144
FmtDone ==
    /\ pc = "right"
    /\ i = Len(bytes)
    /\ Returns("Ok")
    /\ UNCHANGED <<input, case, sink, attempts, fmt_locals, list_locals, out>>

\* ------------------------------------- LowerHex for HexList (74-82)
OPEN == << <<"[">> >>
CLOSE == << <<"]">> >>
\* Mutant of SEPARATOR: "," for ", ".
SEPARATOR_NoSpace == << <<",">> >>
SEPARATOR == << <<",", " ">> >>
NEWLINE == << <<"\n">> >>
COMMA_NEWLINE == << <<",", "\n">> >>

AsResult(ok) == IF ok THEN "Ok" ELSE "Err"

\* 80: f.debug_list() writes "[" and keeps the outcome in DebugInner.result.
DebugListNew ==
    /\ pc = "list_lower"
    /\ LET w == WriteRaw(OPEN) IN
       /\ sink' = w.e.sink
       /\ attempts' = w.e.attempts
       /\ dl_result' = AsResult(w.e.ok)
    /\ has_fields' = FALSE
    /\ idx' = 0
    /\ pc' = "entries"
    /\ UNCHANGED <<input, case, result, fmt_locals, ret, on_newline, out>>

\* 79-80: entries() takes the next item and, unless an earlier write failed,
\* writes what precedes it (", " between entries; with `#`, "\n" before the
\* first one) and formats HexFmt(item) with Debug, which is LowerHex (28-32),
\* on the formatter it was given: `f` itself, or with `#` a PadAdapter
\* around it that keeps f's precision.
DebugListEntry ==
    /\ pc = "entries"
    /\ idx < Len(list)
    /\ idx' = idx + 1
    /\ has_fields' = TRUE
    /\ IF dl_result = "Err"
       THEN UNCHANGED <<sink, attempts, dl_result, on_newline, bytes, pc>>
       ELSE LET before == IF alternate
                          THEN (IF has_fields THEN <<>> ELSE NEWLINE)
                          ELSE (IF has_fields THEN SEPARATOR ELSE <<>>)
                w == WriteRaw(before)
            IN /\ sink' = w.e.sink
               /\ attempts' = w.e.attempts
               /\ dl_result' = AsResult(w.e.ok)
               /\ IF w.e.ok
                  THEN /\ on_newline' = TRUE
                       /\ bytes' = At(list, idx)
                       /\ pc' = "fmt"
                  ELSE UNCHANGED <<on_newline, bytes, pc>>
    /\ UNCHANGED <<input, case, result, prec, left, right, i, ret, out>>

\* The entry's formatting has returned: its outcome becomes
\* DebugInner.result; with `#` the entry is closed with ",\n" written
\* through the PadAdapter.
DebugListEntryRet ==
    /\ pc = "entry_ret"
    /\ IF ret = "Ok" /\ alternate
       THEN LET w == Write(COMMA_NEWLINE) IN
            /\ sink' = w.e.sink
            /\ attempts' = w.e.attempts
            /\ on_newline' = w.nl
            /\ dl_result' = AsResult(w.e.ok)
       ELSE /\ dl_result' = ret
            /\ UNCHANGED <<sink, attempts, on_newline>>
    /\ pc' = "entries"
    /\ UNCHANGED <<input, case, result, fmt_locals, ret, idx, has_fields, out>>

\* 80: finish() writes "]" unless a write has failed, and gives the result.
DebugListFinish ==
    /\ pc = "entries"
    /\ idx = Len(list)
    /\ IF dl_result = "Ok"
       THEN LET w == WriteRaw(CLOSE) IN
            /\ sink' = w.e.sink
            /\ attempts' = w.e.attempts
            /\ result' = AsResult(w.e.ok)
       ELSE /\ result' = "Err"
            /\ UNCHANGED <<sink, attempts>>
    /\ pc' = "ret"
    /\ UNCHANGED <<input, case, fmt_locals, ret, list_locals, out>>

\* ------------------------------------- UpperHex for HexList (84-100)
\* `write!(f, s)?` in the list renderer: on success go on at np.
ListWrite(chunks, np) ==
    LET w == WriteRaw(chunks) IN
    /\ sink' = w.e.sink
    /\ attempts' = w.e.attempts
    /\ IF w.e.ok
       THEN pc' = np /\ result' = result
       ELSE pc' = "ret" /\ result' = "Err"

\* 89-90
UpperOpen ==
    /\ pc = "list_upper"
    /\ ListWrite(OPEN, "upper_first")
    /\ idx' = 0
    /\ UNCHANGED <<input, case, fmt_locals, ret, has_fields, dl_result,
                   on_newline, out>>

\* 91-93
UpperFirst ==
    /\ pc = "upper_first"
    /\ IF idx < Len(list)
       THEN /\ idx' = idx + 1
            /\ bytes' = At(list, idx)
            /\ pc' = "fmt"
       ELSE /\ pc' = "upper_loop"
            /\ UNCHANGED <<idx, bytes>>
    /\ UNCHANGED <<input, case, sink, attempts, result, prec, left, right, i,
                   ret, has_fields, dl_result, on_newline, out>>

\* 92, 96: the `?` on the element's result
UpperRet ==
    /\ pc = "upper_ret"
    /\ IF ret = "Ok"
       THEN pc' = "upper_loop" /\ result' = result
       ELSE pc' = "ret" /\ result' = ret
    /\ UNCHANGED <<input, case, sink, attempts, fmt_locals, ret, list_locals,
                   out>>

\* 94-96
UpperNext ==
    /\ pc = "upper_loop"
    /\ idx < Len(list)
    /\ LET w == WriteRaw(SEPARATOR) IN
       /\ sink' = w.e.sink
       /\ attempts' = w.e.attempts
       /\ IF w.e.ok
          THEN /\ idx' = idx + 1
               /\ bytes' = At(list, idx)
               /\ pc' = "fmt"
               /\ result' = result
          ELSE /\ pc' = "ret"
               /\ result' = "Err"
               /\ UNCHANGED <<idx, bytes>>
    /\ UNCHANGED <<input, case, prec, left, right, i, ret, has_fields,
                   dl_result, on_newline, out>>

\* 98
UpperClose ==
    /\ pc = "upper_loop"
    /\ idx = Len(list)
    /\ LET w == WriteRaw(CLOSE) IN
       /\ sink' = w.e.sink
       /\ attempts' = w.e.attempts
       /\ result' = AsResult(w.e.ok)
    /\ pc' = "ret"
    /\ UNCHANGED <<input, case, fmt_locals, ret, list_locals, out>>

\* ------------------------------------------------- the formatting traits
\* Debug and Display delegate to LowerHex (28-38, 56-72); LowerHex and
\* UpperHex choose the Case (40-50) or the list renderer (74-100).
CaseOf(entry) == IF entry = "UpperHex" THEN "Upper" ELSE "Lower"

\* The caller renders the value through one of the traits into a fresh sink.
Call ==
    /\ pc = "idle"
    /\ \E entry \in Entries :
          /\ out[CaseOf(entry)] = NoOut
          /\ case' = CaseOf(entry)
    /\ sink' = <<>>
    /\ attempts' = 0
    /\ result' = "none"
    /\ IF view = "HexFmt"
       THEN bytes' = value /\ pc' = "fmt"
       ELSE bytes' = <<>>
            /\ pc' = (IF case' = "Upper" THEN "list_upper" ELSE "list_lower")
    /\ prec' = 0
    /\ left' = 0
    /\ right' = 0
    /\ i' = 0
    /\ ret' = "none"
    /\ idx' = 0
    /\ has_fields' = FALSE
    /\ dl_result' = "Ok"
    /\ on_newline' = FALSE
    /\ UNCHANGED <<input, out>>

\* The call is over: the caller has its result and what the sink received.
Return ==
    /\ pc = "ret"
    /\ out' = [out EXCEPT ![case] = <<result, sink>>]
    /\ pc' = "idle"
    /\ UNCHANGED <<input, case, sink, attempts, result, fmt_locals, ret,
                   list_locals>>

Next ==
    \/ Call
    \/ Return
    \/ Fmt
    \/ FmtFullByte
    \/ FmtFullDone
    \/ FmtEllipsisOnly
    \/ FmtLeftByte
    \/ FmtLeftNibble
    \/ FmtEllipsis
    \/ FmtRightNibble
    \/ FmtRightSlice
    \/ FmtRightByte
    \/ FmtDone
    \/ DebugListNew
    \/ DebugListEntry
    \/ DebugListEntryRet
    \/ DebugListFinish
    \/ UpperOpen
    \/ UpperFirst
    \/ UpperRet
    \/ UpperNext
    \/ UpperClose

Spec == Init /\ [][Next]_vars

\* ===================================================== the claims' notions
\* The precision a call is made with, an absent one counting as the default.
P == IF precision = None THEN DEFAULT_PRECISION ELSE precision[1]

\* A render call has ended: `result` and `sink` are what its caller sees.
Done == pc = "ret"
Rendered == Done /\ result = "Ok"
Single == view = "HexFmt"
Collection == view = "HexList"

HexChars(c) == IF c = "Upper" THEN UpperDigits ELSE LowerDigits
IsHexChar(ch, c) == \E d \in 1..16 : HexChars(c)[d] = ch

\* The full expansion: each byte, in order, as exactly two hex digits.
FullHex(b, c) ==
    [k \in 1..(2 * Len(b)) |->
        IF k % 2 = 1
        THEN HexChars(c)[(b[(k + 1) \div 2] \div 16) + 1]
        ELSE HexChars(c)[(b[k \div 2] % 16) + 1]]

RightOf(p) == (p - 2) \div 2
LeftOf(p) == (p - 2) - RightOf(p)

\* Where ".." starts in a text.
EllipsisStarts(t) ==
    {k \in 1..(Len(t) - 1) : t[k] = "." /\ t[k + 1] = "."}

\* The single-sequence rendering of b at precision p, as the three cases of
\* C2, C3 (amended) and C5 give it.
Elided(b, p, c) ==
    IF 2 * Len(b) <= p
    THEN FullHex(b, c)
    ELSE IF p <= 2
    THEN Take(<<".", ".">>, p)
    ELSE Take(FullHex(b, c), LeftOf(p)) \o <<".", ".">>
             \o LastN(FullHex(b, c), RightOf(p))

RECURSIVE Concat(_)
Concat(ts) == IF ts = <<>> THEN <<>> ELSE Head(ts) \o Concat(Tail(ts))

\* "[" + the renderings separated by ", " + "]"
Bracketed(rs) ==
    <<"[">>
    \o Concat([k \in 1..Len(rs) |->
                  (IF k > 1 THEN <<",", " ">> ELSE <<>>) \o rs[k]])
    \o <<"]">>

\* The layout of a pretty-printed list: one indented rendering per line, a
\* comma after each.
PrettyBracketed(rs) ==
    <<"[">>
    \o (IF rs = <<>> THEN <<>> ELSE <<"\n">>)
    \o Concat([k \in 1..Len(rs) |->
                  <<" ", " ", " ", " ">> \o rs[k] \o <<",", "\n">>])
    \o <<"]">>

\* The lower-case view of a collection under the alternate flag `#`.
Pretty == Collection /\ case = "Lower" /\ alternate

Renderings(p) == [k \in 1..Len(list) |-> Elided(list[k], p, case)]

Upcase(ch) ==
    IF \E d \in 11..16 : LowerDigits[d] = ch
    THEN UpperDigits[CHOOSE d \in 11..16 : LowerDigits[d] = ch]
    ELSE ch
Downcase(ch) ==
    IF \E d \in 11..16 : UpperDigits[d] = ch
    THEN LowerDigits[CHOOSE d \in 11..16 : UpperDigits[d] = ch]
    ELSE ch

\* Two texts of the same length that agree everywhere except that the
\* letters a-f of the first are A-F in the second.
SameUpToCase(lo, up) ==
    /\ Len(lo) = Len(up)
    /\ \A k \in 1..Len(lo) : up[k] = Upcase(lo[k]) /\ lo[k] = Downcase(up[k])

BothRendered == out["Lower"][1] = "Ok" /\ out["Upper"][1] = "Ok"

Failed == failAt # None /\ attempts >= failAt[1]

IsPrefix(s, t) == Len(s) <= Len(t) /\ Take(t, Len(s)) = s

\* ================================================================== claims

\* C1: the single-sequence rendering of any byte sequence at precision p
\* (default 10 when absent), in either case, has at most p characters; the
\* sink never holds more than p characters at any point of the call.
C1_AtMostPrecision ==
    Single => Len(sink) <= P

C1_Witness ==
    /\ Single /\ Rendered
    /\ precision = None
    /\ Len(value) = MaxLen
    /\ Len(sink) = DEFAULT_PRECISION

\* C2: when 2 * len(b) <= p (ties and the empty sequence included) the
\* rendering is the full expansion, two hex digits per byte in order, with
\* no ellipsis.
C2_FullWhenFits ==
    (Single /\ Rendered /\ 2 * Len(value) <= P)
        => /\ sink = FullHex(value, case)
           /\ EllipsisStarts(sink) = {}

C2_Witness ==
    /\ Single /\ Rendered
    /\ Len(value) = 3
    /\ 2 * Len(value) = P
    /\ Len(sink) = 6

\* C3 as stated: for every byte sequence and every precision p in 0..2 the
\* rendering is the first p characters of "..".
C3_Original ==
    (Single /\ Rendered /\ P <= 2) => sink = Take(ELLIPSIS, P)

\* C3 amended: for every precision p in 0..2 and every byte sequence that
\* does not fit (2 * len(b) > p) the rendering is the first p characters of
\* "..".
C3_EllipsisPrefixWhenTooLong ==
    (Single /\ Rendered /\ P <= 2 /\ 2 * Len(value) > P)
        => sink = Take(ELLIPSIS, P)

C3_Witness ==
    /\ Single /\ Rendered
    /\ P = 1
    /\ Len(value) = 1
    /\ sink = <<".">>

\* C4: when 2 * len(b) > p > 2 the rendering has exactly p characters and
\* exactly one occurrence of "..", every other character being a hex digit.
C4_ElidedShape ==
    (Single /\ Rendered /\ 2 * Len(value) > P /\ P > 2)
        => /\ Len(sink) = P
           /\ Cardinality(EllipsisStarts(sink)) = 1
           /\ \A k \in 1..Len(sink) :
                 \/ IsHexChar(sink[k], case)
                 \/ k \in EllipsisStarts(sink)
                 \/ k - 1 \in EllipsisStarts(sink)

C4_Witness ==
    /\ Single /\ Rendered
    /\ P = 7
    /\ Len(value) = 4
    /\ Len(sink) = 7
    /\ sink[4] = "." /\ sink[5] = "."

\* C5: when 2 * len(b) > p > 2, with right = (p - 2) div 2 and
\* left = (p - 2) - right, the rendering is the first `left` characters of
\* the full expansion, "..", and the last `right` characters of the full
\* expansion; an odd left ends with the high nibble of byte left div 2, an
\* odd right starts with the low nibble of byte len(b) - right div 2 - 1,
\* and left - right is 0 or 1.
C5_ElidedContent ==
    (Single /\ Rendered /\ 2 * Len(value) > P /\ P > 2)
        => /\ left = LeftOf(P) /\ right = RightOf(P)
           /\ left - right \in {0, 1}
           /\ sink = Take(FullHex(value, case), left) \o <<".", ".">>
                        \o LastN(FullHex(value, case), right)
           /\ left % 2 = 1 =>
                 sink[left] = HexChars(case)[(value[left \div 2 + 1] \div 16) + 1]
           /\ right % 2 = 1 =>
                 sink[left + 3] =
                     HexChars(case)[(value[Len(value) - right \div 2] % 16) + 1]

C5_Witness ==
    /\ Single /\ Rendered
    /\ P = 8
    /\ Len(value) = 5
    /\ left = 3 /\ right = 3
    /\ sink[3] # sink[6]

\* C6 as stated: the rendering of a collection, lower-case/default and
\* upper-case view alike, is "[", the renderings of its elements in order
\* separated by ", " with no trailing separator, and "]".
C6_Original ==
    (Collection /\ Rendered) => sink = Bracketed(Renderings(P))

\* C6 amended: in the upper-case view, and in the lower-case/default view
\* when the alternate flag `#` is not set, the rendering of a collection is
\* "[", the renderings of its elements in order separated by ", " with no
\* trailing separator, and "]"; an empty collection renders "[]" and a
\* one-element collection "[" + the element's rendering + "]".
C6_BracketedList ==
    (Collection /\ Rendered /\ ~Pretty)
        => /\ sink = Bracketed(Renderings(P))
           /\ list = <<>> => sink = <<"[", "]">>
           /\ Len(list) = 1 => sink = <<"[">> \o Elided(list[1], P, case) \o <<"]">>

C6_Witness ==
    /\ Collection /\ Rendered /\ ~Pretty
    /\ Len(list) = 2
    /\ Len(list[1]) = 1 /\ Len(list[2]) = 2
    /\ Len(sink) = 10

\* C7 as stated: whatever precision the caller gives, each element of a
\* collection is rendered as the single-sequence renderer renders it at the
\* default precision 10.
C7_Original ==
    (Collection /\ Rendered)
        => sink = IF Pretty
                  THEN PrettyBracketed(Renderings(DEFAULT_PRECISION))
                  ELSE Bracketed(Renderings(DEFAULT_PRECISION))

\* C7 amended: the collection renderer forwards the caller's precision:
\* each element is rendered as the single-sequence renderer renders it at
\* the caller's precision, and at the default 10 when the caller gives none.
C7_PrecisionForwarded ==
    /\ (Collection /\ pc \in {"upper_ret", "entry_ret"}) => prec = P
    /\ (Collection /\ Rendered)
          => sink = IF Pretty
                    THEN PrettyBracketed(Renderings(P))
                    ELSE Bracketed(Renderings(P))

C7_Witness ==
    /\ Collection /\ Rendered
    /\ precision = Some(3)
    /\ Len(list) = 2
    /\ Len(list[2]) = 2
    /\ sink # Bracketed(Renderings(DEFAULT_PRECISION))
    /\ sink # PrettyBracketed(Renderings(DEFAULT_PRECISION))

\* C8 as stated: for every input, single sequence or collection, the
\* upper-case and lower-case renderings have the same length and agree at
\* every position except that a-f of one are A-F of the other.
C8_Original ==
    (pc = "idle" /\ BothRendered)
        => SameUpToCase(out["Lower"][2], out["Upper"][2])

\* C8 amended: for every single byte sequence, and for every collection
\* when the alternate flag `#` is not set, the upper-case and lower-case
\* renderings have the same length and agree at every position except that
\* a-f of one are A-F of the other.
C8_CaseOnly ==
    (pc = "idle" /\ BothRendered /\ (Single \/ ~alternate))
        => SameUpToCase(out["Lower"][2], out["Upper"][2])

C8_Witness ==
    /\ pc = "idle" /\ BothRendered
    /\ Collection /\ ~alternate
    /\ Len(list) = 2
    /\ precision = Some(3)
    /\ out["Lower"][2] # out["Upper"][2]

\* C9: a render call ends in success or in the sink's write error, and in
\* the error exactly when a write was rejected; after the rejected write the
\* call makes no further write and no retry, and what was written before it
\* stays in the sink.
C9_Final ==
    Done => /\ result \in {"Ok", "Err"}
            /\ result = "Err" <=> Failed
C9_Step ==
    (pc # "idle")
        => /\ IsPrefix(sink, sink')
           /\ attempts' >= attempts
           /\ Failed => (sink' = sink /\ attempts' = attempts)
C9_OnlyWriteErrors ==
    [](C9_Final /\ (failAt # None => attempts <= failAt[1])) /\ [][C9_Step]_vars

C9_Witness ==
    /\ Collection /\ Done
    /\ result = "Err"
    /\ failAt = Some(4)
    /\ Len(sink) >= 3

\* C10: in the general-elision branch every slice and index is in range,
\* left/2 + right/2 does not exceed len(b) and no subtraction underflows,
\* so no call panics.
ElisionSteps == {"left", "ellipsis", "right_nibble", "right_slice", "right"}
C10_NoPanic ==
    /\ result # "Panic" /\ ret # "Panic"
    /\ pc \in ElisionSteps
          => /\ left \div 2 + right \div 2 <= Len(bytes)
             /\ left \div 2 <= Len(bytes)
             /\ left % 2 = 1 => left \div 2 < Len(bytes)
             /\ Len(bytes) - right \div 2 >= 0
             /\ right % 2 = 1 => Len(bytes) - right \div 2 - 1 >= 0

C10_Witness ==
    /\ pc = "right"
    /\ i = Len(bytes)
    /\ left % 2 = 1 /\ right % 2 = 1
    /\ 2 * Len(bytes) = prec + 2
====
